---- MODULE Spec2Model ----
(***************************************************************************)
(* Roll-decay estimators: the life cycle of one estimator object           *)
(* (construction, configuration, fit, predict, score, result_for_database) *)
(* and the pure helpers fit relies on (parameter_names, bounds,            *)
(* initial_guess, fft, fft_omega0).                                        *)
(*                                                                         *)
(* Numbers.  Every number is a record [kind, num, den]: kind "fin" is the  *)
(* rational num/den, kinds "inf" and "-inf" are numpy's infinities.        *)
(* An angular frequency is held as its rational factor of 2*pi.            *)
(* Floating point results of the ODE solver are abstracted to the class    *)
(* of each sample: "num" (a finite number) or "inf".                       *)
(***************************************************************************)
EXTENDS Integers, Sequences, FiniteSets, TLC

VARIABLES est, run, pc, last, calls

vars == <<est, run, pc, last, calls>>

-----------------------------------------------------------------------------
(* Bounds of the model *)

\* the evaluation budget handed to the optimizer (maxfev of the constructor)
MaxTrials == 3

\* how many trial vectors, besides the initial guess, the optimizer may try
NumCandidates == 1

\* how many calls a caller makes on one estimator
MaxCalls == 2

-----------------------------------------------------------------------------
(* Numbers *)

Rat(n, d) == [kind |-> "fin", num |-> n, den |-> d]

PosInf == [kind |-> "inf", num |-> 1, den |-> 0]

NegInf == [kind |-> "-inf", num |-> -1, den |-> 0]

-----------------------------------------------------------------------------
(* Python dictionaries: functions whose domain is the key set *)

EmptyDict == [k \in {} |-> Rat(0, 1)]

DictGet(d, key, default) == IF key \in DOMAIN d THEN d[key] ELSE default

DictUpdate(d, other) ==
    [k \in (DOMAIN d) \cup (DOMAIN other) |->
        IF k \in DOMAIN other THEN other[k] ELSE d[k]]

DictSet(d, key, value) ==
    [k \in (DOMAIN d) \cup {key} |-> IF k = key THEN value ELSE d[k]]

\* {key: x for key, x in zip(names, xs)}: zip stops at the shorter sequence
DictZip(names, xs) ==
    LET n == IF Len(names) <= Len(xs) THEN Len(names) ELSE Len(xs)
    IN  [k \in {names[i] : i \in 1..n} |->
            xs[CHOOSE i \in 1..n :
                  /\ names[i] = k
                  /\ \A j \in 1..n : names[j] = k => j <= i]]

Range(s) == {s[i] : i \in DOMAIN s}

RECURSIVE SelectNotIn(_, _)
\* the elements of sequence s that are not in the set remove, in order
SelectNotIn(s, remove) ==
    IF s = <<>> THEN <<>>
    ELSE IF Head(s) \in remove THEN SelectNotIn(Tail(s), remove)
         ELSE <<Head(s)>> \o SelectNotIn(Tail(s), remove)

-----------------------------------------------------------------------------
(* The model variants and their acceleration functions *)

Variants == {"RollDecay", "Cubic", "QuadraticB", "QuadraticBandC", "Linear"}

CubicFamily == {"Cubic", "QuadraticB", "QuadraticBandC", "Linear"}

\* the variants whose damping law has terms beyond B_1*phi_dot
NonlinearDamping == {"Cubic", "QuadraticB", "QuadraticBandC"}

\* The argument names of each class's lambdified acceleration function, the
\* state arguments first.  RollDecay.functions: the symbols of the equation
\* solved for the acceleration.
RollDecay_functions == <<"phi", "phi1d", "omega0", "zeta">>

\* EstimatorCubic.functions['acceleration']: the equation is normalised with
\* A_44, which names the coefficients as EstimatorCubic.simulate passes them
EstimatorCubic_functions ==
    <<"phi", "phi1d", "B_1A", "B_2A", "B_3A", "C_1A", "C_3A", "C_5A">>

\* EstimatorQuadraticB.functions['acceleration']
EstimatorQuadraticB_functions == <<"phi", "phi1d", "B_1A", "B_2A", "C_1A">>

\* EstimatorQuadraticBandC.functions['acceleration']
EstimatorQuadraticBandC_functions ==
    <<"phi", "phi1d", "B_1A", "B_2A", "C_1A", "C_3A">>

\* EstimatorLinear.functions['acceleration']
EstimatorLinear_functions == <<"phi", "phi1d", "B_1A", "C_1A">>

\* DirectEstimator, the base class of the cubic family: it adds nothing to
\* RollDecay's fit, predict and score, and its calculate_acceleration is the
\* entry 'acceleration' of the class's functions
DirectEstimator_calculate_acceleration(variant) ==
    CASE variant = "Cubic"          -> EstimatorCubic_functions
      [] variant = "QuadraticB"     -> EstimatorQuadraticB_functions
      [] variant = "QuadraticBandC" -> EstimatorQuadraticBandC_functions
      [] variant = "Linear"         -> EstimatorLinear_functions

\* RollDecay.calculate_acceleration: self.functions[0]
calculate_acceleration(variant) ==
    IF variant = "RollDecay" THEN RollDecay_functions
    ELSE DirectEstimator_calculate_acceleration(variant)

\* the coefficient names of a variant: the arguments other than phi and phi1d
CoefficientNames(variant) ==
    Range(calculate_acceleration(variant)) \ {"phi", "phi1d"}

\* the leading damping coefficient of a variant of the cubic family
LeadingDamping == "B_1A"

\* calling the acceleration function with keyword arguments: Python raises
\* TypeError unless the keywords are exactly the function's arguments
AcceptsKeywords(variant, keys) == keys = Range(calculate_acceleration(variant))

-----------------------------------------------------------------------------
(* Input series: a time index, the phi samples and the columns present *)

Columns == {"phi", "phi1d", "phi2d"}

ColumnSets == {{"phi"}, {"phi", "phi1d"}, {"phi", "phi1d", "phi2d"}}

UniformTime(n, dt) == [i \in 1..n |-> (i - 1) * dt]

\* the series a caller passes: an oscillation about zero with each set of
\* columns, and an oscillation about a large offset with every column
Inputs ==
    {[t |-> UniformTime(4, 1), phi |-> <<2, -2, 2, -2>>, cols |-> c] :
        c \in ColumnSets}
    \cup {[t |-> UniformTime(4, 1), phi |-> <<3, 2, 3, 2>>, cols |-> Columns]}

NoSeries == [t |-> <<>>, phi |-> <<>>, cols |-> {}]

\* the series the DFT is exercised on: 2 or 4 samples, uniform time steps
PhiValues == -1..2

TimeSteps == {1, 2}

FFTInputs ==
    {[t |-> UniformTime(Len(p), dt), phi |-> p, cols |-> {"phi"}] :
        p \in [1..2 -> PhiValues] \cup [1..4 -> PhiValues], dt \in TimeSteps}

-----------------------------------------------------------------------------
(* The spectral estimate of the natural frequency *)

\* e^(-2*pi*i*m/4) as <<real part, imaginary part>>, m in 0..3
Twiddle4(m) ==
    CASE m % 4 = 0 -> <<1, 0>>
      [] m % 4 = 1 -> <<0, -1>>
      [] m % 4 = 2 -> <<-1, 0>>
      [] m % 4 = 3 -> <<0, 1>>

RECURSIVE SumTo(_, _)
SumTo(f, n) == IF n = 0 THEN 0 ELSE f[n] + SumTo(f, n - 1)

\* bin k of numpy.fft.rfft(signal), as <<real, imaginary>>; the number of
\* samples divides 4, so every twiddle factor is a power of -i
RfftBin(signal, k) ==
    LET n   == Len(signal)
        w(j) == Twiddle4((j - 1) * k * (4 \div n))
    IN  << SumTo([j \in 1..n |-> signal[j] * w(j)[1]], n),
           SumTo([j \in 1..n |-> signal[j] * w(j)[2]], n) >>

\* RollDecay.fft: the frequencies of the bins 0..n/2 of the real DFT and the
\* magnitude of each bin.  The magnitude is held as its square (numpy.abs is
\* the square root, which keeps the order and the ties).
fft(series) ==
    LET n    == Len(series.phi)
        span == series.t[n] - series.t[1]
        bins == (n \div 2) + 1
    IN  [frequencies |-> [b \in 1..bins |-> Rat((b - 1) * (n - 1), n * span)],
         dft         |-> [b \in 1..bins |->
                            LET z == RfftBin(series.phi, b - 1)
                            IN  z[1] * z[1] + z[2] * z[2]]]

\* numpy.argmax: the first index that holds the maximum
ArgMax(s) ==
    CHOOSE i \in DOMAIN s :
        /\ \A j \in DOMAIN s : s[j] <= s[i]
        /\ \A j \in DOMAIN s : s[j] = s[i] => i <= j

\* RollDecay.fft_omega0, as the factor of 2*pi
fft_omega0(frequencies, dft) == frequencies[ArgMax(dft)]

-----------------------------------------------------------------------------
(* The estimator object *)

FitMethods == {"derivation", "integration"}

NoResult == [x |-> <<>>, success |-> FALSE, call |-> 0]

\* EstimatorCubic.__init__: the bounds the cubic family adds to the caller's
new_bounds == [k \in {"B_1_A"} |-> <<Rat(0, 1), PosInf>>]

\* RollDecay.__init__ (set_fit_method with a known method included).  An
\* attribute that no fit has assigned yet is absent from attrs; the fields X,
\* result and parameters then hold a placeholder that no code reads.
RollDecay__init__(variant, bounds_arg, p0_arg, fit_method, omega_regression) ==
    [variant          |-> variant,
     is_fitted_       |-> FALSE,
     y_key            |-> IF fit_method = "derivation" THEN "phi2d" ELSE "phi",
     boundaries       |-> bounds_arg,
     p0               |-> p0_arg,
     maxfev           |-> MaxTrials,
     fit_method       |-> fit_method,
     omega_regression |-> omega_regression,
     assert_success   |-> TRUE,
     attrs            |-> {"is_fitted_"},
     X                |-> NoSeries,
     result           |-> NoResult,
     parameters       |-> EmptyDict,
     parameters_call  |-> 0,
     simulation_result |-> "unset"]

\* EstimatorCubic.__init__: the natural frequency is always a free parameter
EstimatorCubic__init__(variant, bounds_arg, p0_arg, fit_method) ==
    RollDecay__init__(variant, DictUpdate(new_bounds, bounds_arg), p0_arg,
                      fit_method, TRUE)

\* constructing a variant: the base class takes omega_regression, the cubic
\* family does not
Construct(variant, bounds_arg, p0_arg, fit_method, omega_regression) ==
    IF variant \in CubicFamily
    THEN EstimatorCubic__init__(variant, bounds_arg, p0_arg, fit_method)
    ELSE RollDecay__init__(variant, bounds_arg, p0_arg, fit_method,
                           omega_regression)

\* sklearn's check_is_fitted(self, attribute): passes when the object has
\* the attribute, whatever its value
check_is_fitted(e, attribute) == attribute \in e.attrs

\* RollDecay.parameter_names: the names the optimizer varies
parameter_names(e) ==
    LET remove == IF e.omega_regression THEN {"phi", "phi1d"}
                  ELSE {"phi", "phi1d", "omega0"}
    IN  SelectNotIn(calculate_acceleration(e.variant), remove)

DefaultBoundaries == <<NegInf, PosInf>>

DefaultGuess == Rat(1, 2)

\* RollDecay.bounds: [tuple(minimums), tuple(maximums)]
bounds(e) ==
    LET names  == parameter_names(e)
        b(key) == DictGet(e.boundaries, key, DefaultBoundaries)
    IN  [minimums |-> [i \in 1..Len(names) |-> b(names[i])[1]],
         maximums |-> [i \in 1..Len(names) |-> b(names[i])[2]]]

\* RollDecay.initial_guess
initial_guess(e) ==
    LET names == parameter_names(e)
    IN  [i \in 1..Len(names) |-> DictGet(e.p0, names[i], DefaultGuess)]

\* fft_omega0 of fft of each series a caller passes, evaluated once
SpectralEstimate ==
    [series \in Inputs |->
        LET r == fft(series)
        IN  fft_omega0(r.frequencies, r.dft)]

\* RollDecay.omega0: the spectral estimate of the stored series self.X
omega0(e) == SpectralEstimate[e.X]

-----------------------------------------------------------------------------
(* Simulation *)

\* the identity of a table object: the caller's input table, or a table the
\* call has created
CallerTable == "X"

NewTable == "new"

NoTable ==
    [obj |-> "none", index |-> <<>>, cols |-> {}, phi |-> <<>>, phi1d |-> <<>>]

\* the table of a call that writes the simulated columns into its input
DataFrame_Argument(t) ==
    [obj |-> CallerTable, index |-> t, cols |-> {}, phi |-> <<>>,
     phi1d |-> <<>>]

\* pd.DataFrame(index=t): a new table object on the index t, no column yet
DataFrame(t) ==
    [obj |-> NewTable, index |-> t, cols |-> {}, phi |-> <<>>, phi1d |-> <<>>]

\* df[key] = values
SetColumn(df, key, values) ==
    [df EXCEPT !.cols = @ \cup {key}, ![key] = values]

\* the caller's table X after the columns of df were assigned: X changes
\* only when df is the same object as X, and then carries the columns that
\* were assigned to it
Written(X, df) ==
    IF df.obj = CallerTable
    THEN [t |-> X.t, phi |-> X.phi, cols |-> X.cols \cup df.cols,
          assigned |-> [phi |-> df.phi, phi1d |-> df.phi1d]]
    ELSE X

\* RollDecay._simulate with roll_decay_time_step.  solver_ok is whether
\* solve_ivp reports success.  The acceleration function is called by the
\* solver, with phi, phi1d and the parameters as keywords: a TypeError comes
\* out of the solver's first derivative evaluation (solver "raised"), and
\* self.simulation_result is assigned only when solve_ivp returns.
_simulate(e, t, parameters, solver_ok) ==
    IF \/ (DOMAIN parameters) \cap {"phi", "phi1d"} # {}
       \/ ~AcceptsKeywords(e.variant, {"phi", "phi1d"} \cup DOMAIN parameters)
    THEN [err |-> "TypeError", df |-> NoTable, solver |-> "raised",
          simulation_result |-> e.simulation_result]
    ELSE IF ~solver_ok
    THEN [err |-> "ValueError: Simulation failed", df |-> NoTable,
          solver |-> "failure", simulation_result |-> "failure"]
    ELSE [err |-> "None",
          df  |-> SetColumn(SetColumn(DataFrame(t),
                                      "phi", [i \in DOMAIN t |-> "num"]),
                            "phi1d", [i \in DOMAIN t |-> "num"]),
          solver |-> "success", simulation_result |-> "success"]

\* estimator_integration without its try/except
Absorbed_Nothing(err) == FALSE

\* the errors estimator_integration turns into an infinite prediction
Absorbed(err) == err # "None"

\* RollDecay.estimator_integration: the prediction of one trial
estimator_integration(e, t, parameters, solver_ok) ==
    LET sim == _simulate(e, t, parameters, solver_ok)
        df  == IF Absorbed(sim.err)
               THEN SetColumn(SetColumn(DataFrame(t),
                                        "phi", [i \in DOMAIN t |-> "inf"]),
                              "phi1d", [i \in DOMAIN t |-> "inf"])
               ELSE sim.df
    IN  IF sim.err # "None" /\ ~Absorbed(sim.err)
        THEN [err |-> sim.err, absorbed |-> "None", pred |-> <<>>,
              solver |-> sim.solver, df |-> sim.df,
              simulation_result |-> sim.simulation_result]
        ELSE IF e.y_key \notin df.cols
        THEN [err |-> "KeyError", absorbed |-> sim.err, pred |-> <<>>,
              solver |-> sim.solver, df |-> df,
              simulation_result |-> sim.simulation_result]
        ELSE [err |-> "None", absorbed |-> sim.err,
              pred |-> IF e.y_key = "phi" THEN df.phi ELSE df.phi1d,
              solver |-> sim.solver, df |-> df,
              simulation_result |-> sim.simulation_result]

\* estimator without lines 79-80
TrialParameters_NoOmega0(e, x) == DictZip(parameter_names(e), x)

\* RollDecay.estimator, lines 77-80: the parameter set of one trial
TrialParameters(e, x) ==
    LET parameters == DictZip(parameter_names(e), x)
    IN  IF ~e.omega_regression
        THEN DictSet(parameters, "omega0", omega0(e))
        ELSE parameters

\* RollDecay.estimator, lines 82-94: the prediction of one trial on series xs
estimator(e, x, xs, solver_ok) ==
    LET parameters == TrialParameters(e, x)
        none == [err |-> "None", absorbed |-> "None", pred |-> <<>>,
                 solver |-> "not called", df |-> NoTable,
                 simulation_result |-> e.simulation_result]
    IN  IF e.fit_method = "derivation"
        THEN IF ~({"phi", "phi1d"} \subseteq xs.cols)
             THEN [none EXCEPT !.err = "KeyError"]
             ELSE IF ~AcceptsKeywords(e.variant,
                                      {"phi", "phi1d"} \cup DOMAIN parameters)
             THEN [none EXCEPT !.err = "TypeError"]
             ELSE [none EXCEPT !.pred = [i \in DOMAIN xs.t |-> "num"]]
        ELSE IF e.fit_method = "integration"
        THEN IF "phi" \notin xs.cols
             THEN [none EXCEPT !.err = "KeyError"]
             ELSE estimator_integration(e, xs.t, parameters, solver_ok)
        ELSE [none EXCEPT !.err = "ValueError: Unknown fit_mehod"]

\* RollDecay.error: ys - prediction, sample by sample
error(ys, pred) ==
    [i \in DOMAIN ys |-> IF pred[i] = "inf" THEN "-inf" ELSE "num"]

ResidualsFinite(r) == \A i \in DOMAIN r : r[i] = "num"

-----------------------------------------------------------------------------
(* The state of a call *)

None == [kind |-> "None"]

\* what the last call did: the operation, the series it was given, what the
\* ODE solver did in it ("not called", "raised", "failure", "success"), the
\* error it raised and the value it returned
Outcome(op, arg, solver, err, ret) ==
    [op |-> op, arg |-> arg, after |-> arg, solver |-> solver, err |-> err,
     ret |-> ret]

\* the same for a call that assigned the columns of the table df: after is
\* the caller's series when the call is over
OutcomeWritten(op, arg, df, solver, err, ret) ==
    [Outcome(op, arg, solver, err, ret) EXCEPT !.after = Written(arg, df)]

Configured(op, err) == Outcome(op, NoSeries, "not called", err, None)

NoTrial ==
    [x |-> <<>>, parameters |-> EmptyDict, solver |-> "not called",
     absorbed |-> "None", pred |-> <<>>, residual |-> <<>>]

\* the fit call in progress: its series, what was handed to the optimizer,
\* the trials made so far, the optimizer's current point, the last trial,
\* and every omega0 value a trial's parameter set has held
NoRun ==
    [X |-> NoSeries, call |-> 0, x0 |-> <<>>,
     bounds |-> [minimums |-> <<>>, maximums |-> <<>>],
     nfev |-> 0, best |-> <<>>, finite0 |-> TRUE, trial |-> NoTrial,
     omegas |-> {}]

\* the state after construction with the default bounds={} and p0={}
Init ==
    /\ \E variant \in Variants, fit_method \in FitMethods,
          omega_regression \in BOOLEAN :
          est = Construct(variant, EmptyDict, EmptyDict, fit_method,
                          omega_regression)
    /\ run = NoRun
    /\ pc = "idle"
    /\ last = Configured("__init__", "None")
    /\ calls = 0

CanCall == pc = "idle" /\ calls < MaxCalls

-----------------------------------------------------------------------------
(* Configuration after construction *)

\* estimator.assert_success = b (line 37 sets it; no method changes it)
SetAssertSuccess(b) ==
    /\ CanCall
    /\ est' = [est EXCEPT !.assert_success = b]
    /\ last' = Configured("assert_success", "None")
    /\ calls' = calls + 1
    /\ UNCHANGED <<run, pc>>

\* estimator.omega_regression = b (line 36 sets it)
SetOmegaRegression(b) ==
    /\ CanCall
    /\ est' = [est EXCEPT !.omega_regression = b]
    /\ last' = Configured("omega_regression", "None")
    /\ calls' = calls + 1
    /\ UNCHANGED <<run, pc>>

FitMethodArguments == FitMethods \cup {"other"}

\* RollDecay.set_fit_method
set_fit_method(fit_method) ==
    /\ CanCall
    /\ est' = [est EXCEPT
                 !.fit_method = fit_method,
                 !.y_key = IF fit_method = "derivation" THEN "phi2d"
                           ELSE IF fit_method = "integration" THEN "phi"
                           ELSE @]
    /\ last' = Configured("set_fit_method",
                          IF fit_method \in FitMethods THEN "None"
                          ELSE "ValueError: Unknown fit_mehod")
    /\ calls' = calls + 1
    /\ UNCHANGED <<run, pc>>

-----------------------------------------------------------------------------
(* fit: lines 113-120 up to the optimizer's first trial, the trials, the   *)
(* optimizer's end, and lines 121-129                                      *)

\* a trial vector other than the initial guess
Candidate(c, n) == [i \in 1..n |-> Rat(c + i, 1)]

\* fit, lines 113-120: self.X = X, ys = X[self.y_key], and the initial guess
\* and the bounds handed to least_squares
FitBegin(X) ==
    /\ CanCall
    /\ calls' = calls + 1
    /\ LET e1 == [est EXCEPT !.X = X, !.attrs = @ \cup {"X"}]
       IN  /\ est' = e1
           /\ IF e1.y_key \notin X.cols
              THEN /\ pc' = "idle"
                   /\ run' = NoRun
                   /\ last' = Outcome("fit", X, "not called", "KeyError",
                                      None)
              ELSE /\ pc' = "fit"
                   /\ run' = [NoRun EXCEPT !.X = X, !.call = calls + 1,
                                           !.x0 = initial_guess(e1),
                                           !.bounds = bounds(e1)]
                   /\ last' = Outcome("fit", X, "not called", "running",
                                      None)

\* the outcome of a fit call that is over: its argument is the series fit was
\* called with, and X_after is that series as the call leaves it
FitOutcome(X_after, solver, err) ==
    [Outcome("fit", last.arg, solver, err, None) EXCEPT !.after = X_after]

\* one evaluation of RollDecay.error by the optimizer: the first at the
\* initial guess, the later ones at a point of the optimizer's choice, which
\* it may take as its new current point when the residuals are finite
FitTrial(c, solver_ok, accept) ==
    /\ pc = "fit"
    /\ run.nfev < est.maxfev
    /\ run.nfev >= 1 => run.finite0
    /\ \E x \in {IF run.nfev = 0 THEN run.x0 ELSE Candidate(c, Len(run.x0))},
          r \in {estimator(est, IF run.nfev = 0 THEN run.x0
                                ELSE Candidate(c, Len(run.x0)),
                           run.X, solver_ok)} :
       LET residual == error(run.X.t, r.pred)
           finite   == ResidualsFinite(residual)
           params   == TrialParameters(est, x)
       IN  /\ est' = [est EXCEPT !.simulation_result = r.simulation_result,
                                 !.X = Written(@, r.df)]
           /\ IF r.err # "None"
              THEN /\ pc' = "idle"
                   /\ run' = NoRun
                   /\ last' = FitOutcome(Written(run.X, r.df), r.solver,
                                         r.err)
              ELSE /\ pc' = "fit"
                   /\ run' = [run EXCEPT
                                !.X = Written(@, r.df),
                                !.nfev = @ + 1,
                                !.finite0 = IF run.nfev = 0 THEN finite ELSE @,
                                !.best = IF run.nfev = 0 \/ (accept /\ finite)
                                         THEN x ELSE @,
                                !.trial = [x |-> x, parameters |-> params,
                                           solver |-> r.solver,
                                           absorbed |-> r.absorbed,
                                           pred |-> r.pred,
                                           residual |-> residual],
                                !.omegas = IF "omega0" \in DOMAIN params
                                           THEN @ \cup {params["omega0"]}
                                           ELSE @]
                   /\ last' = last
    /\ UNCHANGED calls

\* least_squares refuses residuals that are not finite at the initial guess
FitOptimizerRaise ==
    /\ pc = "fit"
    /\ run.nfev = 1
    /\ ~run.finite0
    /\ pc' = "idle"
    /\ run' = NoRun
    /\ last' = FitOutcome(run.X, "not called",
                          "ValueError: Residuals are not finite")
    /\ UNCHANGED <<est, calls>>

\* fit without lines 126-127
FitParameters_NoOmega0(e) == DictZip(parameter_names(e), e.result.x)

\* fit, lines 124-127: the Parameter Set of a result
FitParameters(e) ==
    LET parameters == DictZip(parameter_names(e), e.result.x)
    IN  IF ~e.omega_regression
        THEN DictSet(parameters, "omega0", omega0(e))
        ELSE parameters

\* fit asserting success whatever assert_success is
AssertionFails_Always(e) == ~e.result.success

\* fit, line 121-122: whether the assertion on the result fails
AssertionFails(e) == e.assert_success /\ ~e.result.success

\* the optimizer returns (without success only when the evaluation budget is
\* spent) and fit runs lines 119-129
FitEnd(success) ==
    /\ pc = "fit"
    /\ run.nfev >= 1
    /\ run.finite0
    /\ ~success => run.nfev = est.maxfev
    /\ \E e1 \in {[est EXCEPT
                      !.result = [x |-> run.best, success |-> success,
                                  call |-> run.call],
                      !.attrs = @ \cup {"result"}]} :
           IF AssertionFails(e1)
           THEN /\ est' = e1
                /\ last' = FitOutcome(run.X, "not called", "AssertionError")
           ELSE /\ est' = [e1 EXCEPT !.parameters = FitParameters(e1),
                                     !.parameters_call = run.call,
                                     !.attrs = @ \cup {"parameters"},
                                     !.is_fitted_ = TRUE]
                /\ last' = FitOutcome(run.X, "not called", "None")
    /\ pc' = "idle"
    /\ run' = NoRun
    /\ UNCHANGED calls

-----------------------------------------------------------------------------
(* predict, score, result_for_database *)

\* RollDecay.predict on series X: the error raised or the table returned,
\* and self.simulation_result afterwards
Predict(e, X, solver_ok) ==
    LET fail(err) == [err |-> err, ret |-> None, solver |-> "not called",
                      df |-> NoTable,
                      simulation_result |-> e.simulation_result]
    IN  IF ~check_is_fitted(e, "is_fitted_") THEN fail("NotFittedError")
        ELSE IF "phi" \notin X.cols THEN fail("KeyError")
        ELSE IF "phi1d" \notin X.cols THEN fail("KeyError")
        ELSE IF "parameters" \notin e.attrs THEN fail("AttributeError")
        ELSE LET sim == _simulate(e, X.t, e.parameters, solver_ok)
             IN  [err |-> sim.err,
                  ret |-> IF sim.err = "None"
                          THEN [kind |-> "table", df |-> sim.df]
                          ELSE None,
                  solver |-> sim.solver, df |-> sim.df,
                  simulation_result |-> sim.simulation_result]

\* the coefficients each variant's simulate passes to _simulate (the
\* keywords of its signature), here with the value 1 for each
SimulateParameters(variant) ==
    LET keys ==
         CASE variant = "RollDecay"      -> {"omega0", "zeta"}
           [] variant = "Cubic"          -> {"B_1A", "B_2A", "B_3A", "C_1A",
                                             "C_3A", "C_5A"}
           [] variant = "QuadraticB"     -> {"B_1", "B_2", "C_1"}
           [] variant = "QuadraticBandC" -> {"B_1", "B_2", "C_1", "C_3"}
           [] variant = "Linear"         -> {"B_1", "C_1"}
    IN  [k \in keys |-> Rat(1, 1)]

\* simulate(t, phi0, phi1d0, coefficients) of each variant, on the time grid
\* of series X
simulate(X, solver_ok) ==
    /\ CanCall
    /\ \E sim \in {_simulate(est, X.t, SimulateParameters(est.variant),
                               solver_ok)} :
           /\ est' = [est EXCEPT !.simulation_result = sim.simulation_result]
           /\ last' = Outcome("simulate", X, sim.solver, sim.err,
                              IF sim.err = "None"
                              THEN [kind |-> "table", df |-> sim.df]
                              ELSE None)
    /\ calls' = calls + 1
    /\ UNCHANGED <<run, pc>>

predict(X, solver_ok) ==
    /\ CanCall
    /\ \E r \in {Predict(est, X, solver_ok)} :
           /\ est' = [est EXCEPT !.simulation_result = r.simulation_result]
           /\ last' = OutcomeWritten("predict", X, r.df, r.solver, r.err,
                                     r.ret)
    /\ calls' = calls + 1
    /\ UNCHANGED <<run, pc>>

\* the argument None of score(X=None)
NoneSeries == [t |-> <<>>, phi |-> <<>>, cols |-> {"None"}]

\* RollDecay.score with true_and_prediction
score(X_arg, solver_ok) ==
    /\ CanCall
    /\ IF X_arg = NoneSeries /\ "X" \notin est.attrs
       THEN /\ est' = est
            /\ last' = Outcome("score", X_arg, "not called",
                               "AttributeError", None)
       ELSE \E X \in {IF X_arg = NoneSeries THEN est.X ELSE X_arg} :
            \E r \in {Predict(est, X, solver_ok)} :
                IF "phi" \notin X.cols
                THEN /\ est' = est
                     /\ last' = Outcome("score", X, "not called",
                                        "KeyError", None)
                ELSE /\ est' = [est EXCEPT
                                  !.simulation_result = r.simulation_result]
                     /\ last' = OutcomeWritten("score", X, r.df, r.solver,
                                               r.err,
                                               IF r.err = "None"
                                               THEN [kind |-> "float"]
                                               ELSE None)
    /\ calls' = calls + 1
    /\ UNCHANGED <<run, pc>>

\* the ship metadata a caller may pass: any subset of the three quantities
MetaData ==
    {[k \in keys |-> CASE k = "Volume" -> Rat(2, 1)
                       [] k = "rho"    -> Rat(1025, 1)
                       [] k = "g"      -> Rat(10, 1)] :
        keys \in SUBSET {"Volume", "rho", "g"}}

\* the argument of a result_for_database call: no series, the metadata
MetaDataArgument(meta_data) ==
    [t |-> <<>>, phi |-> <<>>, cols |-> {}, meta_data |-> meta_data]

\* DirectEstimator.result_for_database, which EstimatorCubic extends: it
\* needs the Fit Result and fails with a not-fitted error without it
DirectEstimator_result_for_database(e) ==
    IF "parameters" \in e.attrs THEN "None" ELSE "NotFittedError"

\* EstimatorCubic.result_for_database, lines 113-136
ResultForDatabase(e, meta_data) ==
    LET fail(err) == [err |-> err, ret |-> None]
        inputs1 == IF "g" \in DOMAIN meta_data THEN meta_data
                   ELSE DictSet(meta_data, "g", Rat(981, 100))
        inputs2 == IF "rho" \in DOMAIN inputs1 THEN inputs1
                   ELSE DictSet(inputs1, "rho", Rat(1000, 1))
    IN  IF DirectEstimator_result_for_database(e) # "None"
        THEN fail(DirectEstimator_result_for_database(e))
        ELSE IF "Volume" \notin DOMAIN inputs2 THEN fail("KeyError")
        ELSE IF "parameters" \notin e.attrs THEN fail("AttributeError")
        ELSE IF ~check_is_fitted(e, "is_fitted_") THEN fail("NotFittedError")
        ELSE [err |-> "None",
              ret |-> [kind |-> "mapping",
                       keys |-> (DOMAIN e.parameters) \cup {"A_44", "omega0"},
                       g |-> inputs2["g"], rho |-> inputs2["rho"],
                       Volume |-> inputs2["Volume"]]]

result_for_database(meta_data) ==
    /\ CanCall
    /\ est.variant \in CubicFamily
    /\ \E r \in {ResultForDatabase(est, meta_data)} :
           last' = Outcome("result_for_database", MetaDataArgument(meta_data),
                           "not called", r.err, r.ret)
    /\ calls' = calls + 1
    /\ UNCHANGED <<est, run, pc>>

-----------------------------------------------------------------------------
(* The life cycle of one estimator *)

Next ==
    \/ \E b \in BOOLEAN : SetAssertSuccess(b)
    \/ \E b \in BOOLEAN : SetOmegaRegression(b)
    \/ \E m \in FitMethodArguments : set_fit_method(m)
    \/ \E X \in Inputs : FitBegin(X)
    \/ \E c \in 1..NumCandidates, solver_ok \in BOOLEAN, accept \in BOOLEAN :
          FitTrial(c, solver_ok, accept)
    \/ FitOptimizerRaise
    \/ \E success \in BOOLEAN : FitEnd(success)
    \/ \E X \in Inputs, solver_ok \in BOOLEAN : simulate(X, solver_ok)
    \/ \E X \in Inputs, solver_ok \in BOOLEAN : predict(X, solver_ok)
    \/ \E X \in Inputs \cup {NoneSeries}, solver_ok \in BOOLEAN :
          score(X, solver_ok)
    \/ \E meta_data \in MetaData : result_for_database(meta_data)

Spec == Init /\ [][Next]_vars

-----------------------------------------------------------------------------
(* Properties of the life cycle *)

\* the last call is over and was the operation op
Called(op) == pc = "idle" /\ last.op = op

\* the last call was a fit in which the optimizer returned a result
OptimizerReturned ==
    /\ Called("fit")
    /\ "result" \in est.attrs
    /\ est.result.call = calls

AllInf(t) == [i \in DOMAIN t |-> "inf"]

\* C1: on an estimator on which no fit has completed, predict, score and
\* result_for_database each fail with a not-fitted error and return nothing.
C1_NotFitted ==
    (/\ pc = "idle"
     /\ ~est.is_fitted_
     /\ last.op \in {"predict", "score", "result_for_database"}
     /\ last.op \in {"predict", "score"} => Columns \subseteq last.arg.cols)
    => (last.err = "NotFittedError" /\ last.ret = None)

\* C2: when the optimizer returns without success, fit raises (the failed
\* assertion of line 122) and leaves the fitted flag and the Parameter Set as
\* they were if assert_success is set; otherwise fit completes and the
\* Parameter Set holds the optimizer's final point, name by name.
C2_NoSuccess ==
    [][(/\ pc = "fit"
        /\ pc' = "idle"
        /\ "result" \in est'.attrs
        /\ est'.result.call = calls'
        /\ ~est'.result.success)
       => IF est.assert_success
          THEN /\ last'.err = "AssertionError"
               /\ est'.is_fitted_ = est.is_fitted_
               /\ est'.parameters = est.parameters
               /\ est'.parameters_call = est.parameters_call
          ELSE /\ last'.err = "None"
               /\ est'.is_fitted_
               /\ est'.parameters_call = calls'
               /\ est'.result.x = run.best
               /\ LET names == parameter_names(est')
                  IN  /\ Len(names) = Len(run.best)
                      /\ \A i \in 1..Len(names) :
                            /\ names[i] \in DOMAIN est'.parameters
                            /\ est'.parameters[names[i]] = run.best[i]]_vars

C2_Witness ==
    /\ OptimizerReturned
    /\ ~est.result.success
    /\ ~est.assert_success
    /\ last.err = "None"
    /\ est.is_fitted_

\* C3: the stored optimizer result and the stored Parameter Set stem from
\* the same fit call.
C3_SameFitCall ==
    (pc = "idle" /\ {"result", "parameters"} \subseteq est.attrs)
    => est.result.call = est.parameters_call

C5_OnlySolverFailureAbsorbed ==
    pc = "fit" => run.trial.absorbed \in {"None", "ValueError: Simulation failed"}

\* C7: after every completed fit the keys of the Parameter Set are exactly
\* the coefficient names of the variant's acceleration function.
C7_ParameterKeys ==
    (Called("fit") /\ last.err = "None")
    => DOMAIN est.parameters = CoefficientNames(est.variant)

C7_Witness ==
    /\ Called("fit")
    /\ last.err = "None"
    /\ ~est.omega_regression
    /\ "omega0" \in DOMAIN est.parameters

\* C8: with the natural frequency fixed, omega0 is not one of the
\* optimizer's variables, every trial of one fit call holds the spectral
\* estimate of the series being fitted as omega0, and so does the Parameter
\* Set stored when the fit completes.
C8_FixedOmega0 ==
    /\ (pc = "fit" /\ ~est.omega_regression)
       => /\ Len(run.x0) = Cardinality(CoefficientNames(est.variant) \ {"omega0"})
          /\ Len(run.bounds.minimums) = Len(run.x0)
          /\ run.nfev >= 1 =>
                /\ Len(run.trial.x) = Len(run.x0)
                /\ "omega0" \in DOMAIN run.trial.parameters
                /\ run.omegas = {SpectralEstimate[run.X]}
    /\ (Called("fit") /\ last.err = "None" /\ ~est.omega_regression)
       => /\ "omega0" \in DOMAIN est.parameters
          /\ est.parameters["omega0"] = SpectralEstimate[last.arg]

C8_Witness ==
    /\ Called("fit")
    /\ last.err = "None"
    /\ ~est.omega_regression
    /\ est.variant = "RollDecay"
    /\ est.result.x # <<>>

\* C10: in integration mode fit, predict and score on a series that carries
\* only the phi column end without a missing-column failure.
C10_PhiOnly ==
    (/\ pc = "idle"
     /\ est.fit_method = "integration"
     /\ last.arg.cols = {"phi"}
     /\ \/ last.op = "fit"
        \/ last.op \in {"predict", "score"} /\ est.is_fitted_)
    => last.err # "KeyError"

\* the value a method returns when it returns the object it was called on
Self == [kind |-> "self"]

\* C11: a fit call that completes returns the estimator it was called on.
C11_FitReturnsSelf ==
    (Called("fit") /\ last.err = "None") => last.ret = Self

\* the fit method is a known one and the residual target column is its own
KnownFitMethod(e) ==
    \/ e.fit_method = "derivation" /\ e.y_key = "phi2d"
    \/ e.fit_method = "integration" /\ e.y_key = "phi"

\* C12: a set_fit_method call with an unknown fit method fails and leaves
\* the fit method and the residual target column as they were, so that after
\* every call the fit method is derivation with target phi2d or integration
\* with target phi.
C12_UnknownFitMethod ==
    [][/\ (/\ calls' = calls + 1
           /\ last'.op = "set_fit_method"
           /\ last'.err # "None")
          => /\ est'.fit_method = est.fit_method
             /\ est'.y_key = est.y_key
       /\ KnownFitMethod(est) => KnownFitMethod(est')]_vars

\* C13: result_for_database on a fitted estimator succeeds for every subset
\* of Volume, rho and g in the metadata; an absent rho is taken as 1000, an
\* absent g as 9.81, and a supplied quantity is used as given.
C13_MetaDataDefaults ==
    (Called("result_for_database") /\ est.is_fitted_)
    => LET meta_data == last.arg.meta_data
       IN  /\ last.err = "None"
           /\ last.ret.rho = DictGet(meta_data, "rho", Rat(1000, 1))
           /\ last.ret.g = DictGet(meta_data, "g", Rat(981, 100))
           /\ "Volume" \in DOMAIN meta_data
                 => last.ret.Volume = meta_data["Volume"]

\* C14: fit, predict and score leave the caller's series as it was (the
\* same time index, columns and values), during the trials of a fit as well
\* as when the call is over, and the table predict returns is a new object,
\* not the caller's.
C14_InputUnchanged ==
    /\ pc = "fit" => (run.X = last.arg /\ est.X = last.arg)
    /\ (pc = "idle" /\ last.op \in {"fit", "predict", "score"})
       => last.after = last.arg
    /\ (Called("predict") /\ last.err = "None")
       => /\ last.ret.df.obj = NewTable
          /\ last.ret.df.obj # CallerTable

\* predict returned a table after a fit whose trials simulated
C14_Witness ==
    /\ Called("predict")
    /\ last.err = "None"
    /\ est.fit_method = "integration"
    /\ est.simulation_result = "success"
    /\ last.ret.df.cols = {"phi", "phi1d"}

-----------------------------------------------------------------------------
(* Bounds and initial guesses: construction with caller-supplied bounds   *)
(* and guesses, then the start of fit, which hands them to the optimizer   *)

CallerBounds ==
    {[k \in keys |-> <<Rat(-1, 1), Rat(1, 1)>>] :
        keys \in SUBSET {"B_1A", "C_1A", "zeta"}}

CallerGuesses ==
    {[k \in keys |-> Rat(2, 1)] : keys \in SUBSET {"B_1A", "zeta"}}

InitBounds ==
    /\ \E variant \in Variants, fit_method \in FitMethods,
          omega_regression \in BOOLEAN,
          bounds_arg \in CallerBounds, p0_arg \in CallerGuesses :
          est = Construct(variant, bounds_arg, p0_arg, fit_method,
                          omega_regression)
    /\ run = NoRun
    /\ pc = "idle"
    /\ last = Configured("__init__", "None")
    /\ calls = 0

NextBounds == \E X \in Inputs : FitBegin(X)

SpecBounds == InitBounds /\ [][NextBounds]_vars

\* the default bounds of a coefficient as the documentation states them
StatedDefaultBounds(variant, key) ==
    IF variant \in NonlinearDamping /\ key = LeadingDamping
    THEN <<Rat(0, 1), PosInf>>
    ELSE <<NegInf, PosInf>>

\* C6: the bounds handed to the optimizer are (-inf, inf) and the initial
\* guess 0.5 for every fitted coefficient, except that the leading damping
\* coefficient of Cubic, QuadraticB and QuadraticBandC has lower bound 0; a
\* bound or guess the caller supplies for a coefficient replaces only that
\* coefficient's default.
C6_DefaultBounds ==
    pc = "fit" =>
        LET names == parameter_names(est)
        IN  /\ Len(run.x0) = Len(names)
            /\ Len(run.bounds.minimums) = Len(names)
            /\ Len(run.bounds.maximums) = Len(names)
            /\ \A i \in 1..Len(names) :
                  LET key == names[i]
                      b   == IF key \in DOMAIN est.boundaries
                             THEN est.boundaries[key]
                             ELSE StatedDefaultBounds(est.variant, key)
                      g   == IF key \in DOMAIN est.p0 THEN est.p0[key]
                             ELSE Rat(1, 2)
                  IN  /\ run.bounds.minimums[i] = b[1]
                      /\ run.bounds.maximums[i] = b[2]
                      /\ run.x0[i] = g

-----------------------------------------------------------------------------
(* Simulation with a parameter mapping of the caller's: _simulate called   *)
(* on an estimator as constructed                                          *)

\* the mappings a caller passes: the value 1 for any set of these names
ParameterMappings ==
    {[k \in keys |-> Rat(1, 1)] :
        keys \in SUBSET {"omega0", "zeta", "B_1A", "C_1A"}}

\* the argument of a _simulate call: the time grid and the mapping
SimulateArgument(X, parameters) ==
    [t |-> X.t, phi |-> X.phi, cols |-> X.cols, parameters |-> parameters]

\* est._simulate(t, phi0, phi1d0, parameters) on the time grid of series X
CallSimulate(X, parameters, solver_ok) ==
    /\ CanCall
    /\ \E sim \in {_simulate(est, X.t, parameters, solver_ok)} :
           /\ est' = [est EXCEPT !.simulation_result = sim.simulation_result]
           /\ last' = Outcome("_simulate", SimulateArgument(X, parameters),
                              sim.solver, sim.err,
                              IF sim.err = "None"
                              THEN [kind |-> "table", df |-> sim.df]
                              ELSE None)
    /\ calls' = calls + 1
    /\ UNCHANGED <<run, pc>>

NextSimulate ==
    \E X \in Inputs, parameters \in ParameterMappings, solver_ok \in BOOLEAN :
        CallSimulate(X, parameters, solver_ok)

SpecSimulate == Init /\ [][NextSimulate]_vars

\* C16: simulating with a mapping whose names are not exactly the
\* coefficients of the variant's acceleration function fails before
\* integration begins: the ODE solver is not invoked.
C16_RejectedBeforeIntegration ==
    (/\ Called("_simulate")
     /\ DOMAIN last.arg.parameters # CoefficientNames(est.variant))
    => /\ last.err = "TypeError"
       /\ last.ret = None
       /\ last.solver = "not called"

-----------------------------------------------------------------------------
(* Two estimators constructed with the default bounds and p0: est, and     *)
(* another one whose mappings the caller changes before est is fitted      *)

\* The mapping object an estimator constructed with the defaults holds as
\* self.boundaries.  A default bounds={} is one object, made when the def
\* statement runs and handed to every call that leaves the argument out:
\* RollDecay.__init__ stores that object itself, EstimatorCubic.__init__
\* stores the new_bounds dict it makes in each call.
boundaries_object(variant, instance) ==
    IF variant \in CubicFamily
    THEN <<"new_bounds of EstimatorCubic.__init__", instance>>
    ELSE <<"default bounds of RollDecay.__init__", "every instance">>

\* The mapping object it holds as self.p0: the default p0={} of the
\* constructor that was called, which EstimatorCubic.__init__ passes on
p0_object(variant, instance) ==
    IF variant \in CubicFamily
    THEN <<"default p0 of EstimatorCubic.__init__", "every instance">>
    ELSE <<"default p0 of RollDecay.__init__", "every instance">>

OtherKeys == {"zeta", "B_1A"}

\* the argument of an assignment to a mapping of the other estimator
OtherArgument(variant, key) ==
    [t |-> <<>>, phi |-> <<>>, cols |-> {}, variant |-> variant, key |-> key]

\* other = variant(); other.boundaries[key] = (-1, 1)
OtherSetBound(variant, key) ==
    /\ CanCall
    /\ est' = [est EXCEPT
                 !.boundaries =
                     IF boundaries_object(variant, "other")
                            = boundaries_object(est.variant, "est")
                     THEN DictSet(@, key, <<Rat(-1, 1), Rat(1, 1)>>)
                     ELSE @]
    /\ last' = Outcome("other.boundaries[key] = value",
                       OtherArgument(variant, key), "not called", "None",
                       None)
    /\ calls' = calls + 1
    /\ UNCHANGED <<run, pc>>

\* other = variant(); other.p0[key] = 2
OtherSetGuess(variant, key) ==
    /\ CanCall
    /\ est' = [est EXCEPT
                 !.p0 = IF p0_object(variant, "other")
                            = p0_object(est.variant, "est")
                        THEN DictSet(@, key, Rat(2, 1))
                        ELSE @]
    /\ last' = Outcome("other.p0[key] = value",
                       OtherArgument(variant, key), "not called", "None",
                       None)
    /\ calls' = calls + 1
    /\ UNCHANGED <<run, pc>>

NextShared ==
    \/ \E variant \in Variants, key \in OtherKeys : OtherSetBound(variant, key)
    \/ \E variant \in Variants, key \in OtherKeys : OtherSetGuess(variant, key)
    \/ \E X \in Inputs : FitBegin(X)

SpecShared == Init /\ [][NextShared]_vars

\* C17: whatever is assigned to the bounds or the initial guesses of another
\* estimator constructed with the defaults, the bounds and the initial guess
\* that fit hands to the optimizer are those of a newly constructed estimator.
C17_NoSharedDefaults ==
    pc = "fit" =>
        LET fresh == Construct(est.variant, EmptyDict, EmptyDict,
                               est.fit_method, est.omega_regression)
        IN  /\ run.bounds = bounds(fresh)
            /\ run.x0 = initial_guess(fresh)

-----------------------------------------------------------------------------
(* The spectral estimate on its own: the static methods fft and fft_omega0 *)
(* applied to a series                                                     *)

InitFFT ==
    /\ est = Construct("RollDecay", EmptyDict, EmptyDict, "integration", FALSE)
    /\ run = NoRun
    /\ pc = "idle"
    /\ last = Configured("__init__", "None")
    /\ calls = 0

\* RollDecay.fft_omega0(*RollDecay.fft(series))
CallFftOmega0(series) ==
    /\ CanCall
    /\ LET r == fft(series)
       IN  last' = Outcome("fft_omega0", series, "not called", "None",
                           [kind |-> "float",
                            value |-> fft_omega0(r.frequencies, r.dft)])
    /\ calls' = calls + 1
    /\ UNCHANGED <<est, run, pc>>

NextFFT == \E series \in FFTInputs : CallFftOmega0(series)

SpecFFT == InitFFT /\ [][NextFFT]_vars

\* the first index, other than the zero-frequency bin, that holds the
\* maximum over the non-zero-frequency bins
ArgMaxNonZero(dft) ==
    CHOOSE i \in (DOMAIN dft) \ {1} :
        /\ \A j \in (DOMAIN dft) \ {1} : dft[j] <= dft[i]
        /\ \A j \in (DOMAIN dft) \ {1} : dft[j] = dft[i] => i <= j

\* C9: the estimate is (2*pi times) the frequency of the largest bin among
\* the non-zero-frequency bins of the real DFT, and is strictly positive.
C9_NonZeroBin ==
    Called("fft_omega0") =>
        LET r == fft(last.arg)
        IN  /\ last.ret.value = r.frequencies[ArgMaxNonZero(r.dft)]
            /\ last.ret.value.num > 0
            /\ last.ret.value.den > 0

-----------------------------------------------------------------------------
(* CutTransformer: est is a transformer object, fitted and then applied to *)
(* a series                                                                *)

\* the longest series handed to the transformer
MaxSamples == 3

CutSamples == -2..2

\* the series a caller passes: 1..MaxSamples samples of phi at the times
\* 0, 1, 2, ...
CutInputs ==
    UNION {{[t |-> UniformTime(n, 1), phi |-> p, cols |-> {"phi"}] :
               p \in [1..n -> CutSamples]} : n \in 1..MaxSamples}

CutLimits == {[phi_max |-> a, phi_min |-> b] : a \in 1..3, b \in 0..1}

\* CutTransformer.__init__; fit_returned tells whether a fit call has
\* returned on this object (no code reads it)
CutTransformer__init__(phi_max, phi_min) ==
    [variant |-> "CutTransformer", phi_max |-> phi_max, phi_min |-> phi_min,
     attrs |-> {}, fit_returned |-> FALSE]

InitCut ==
    /\ \E limits \in CutLimits :
          est = CutTransformer__init__(limits.phi_max, limits.phi_min)
    /\ run = NoRun
    /\ pc = "idle"
    /\ last = Configured("__init__", "None")
    /\ calls = 0

Abs(x) == IF x < 0 THEN -x ELSE x

\* the smallest and the largest element of a non-empty set of integers
Min(S) == CHOOSE x \in S : \A y \in S : x <= y

Max(S) == CHOOSE x \in S : \A y \in S : y <= x

\* X.loc[label:] and X.loc[:label] on the rows (row numbers, in order) of a
\* table whose index increases: both ends of a label slice are included
LocFrom(rows, label) ==
    LET keep(r) == r >= label
    IN  SelectSeq(rows, keep)

LocTo(rows, label) ==
    LET keep(r) == r <= label
    IN  SelectSeq(rows, keep)

\* Series.idxmax and Series.idxmin over the rows: the first row that holds
\* the largest (smallest) value
IdxMax(value, rows) ==
    Min({r \in Range(rows) : \A q \in Range(rows) : value[q] <= value[r]})

IdxMin(value, rows) ==
    Min({r \in Range(rows) : \A q \in Range(rows) : value[r] <= value[q]})

\* CutTransformer.fit: n_features_ is assigned before the limits are tested
CutTransformer_fit(X) ==
    /\ CanCall
    /\ LET abs_phi == {Abs(X.phi[i]) : i \in DOMAIN X.phi}
           err     == IF est.phi_max < Min(abs_phi)
                      THEN "ValueError: phi_max is too small"
                      ELSE IF est.phi_min > Max(abs_phi)
                      THEN "ValueError: phi_min is too large"
                      ELSE "None"
       IN  /\ est' = [est EXCEPT
                        !.attrs = @ \cup {"n_features_"},
                        !.fit_returned = @ \/ err = "None"]
           /\ last' = Outcome("CutTransformer.fit", X, "not called", err,
                              IF err = "None" THEN Self ELSE None)
    /\ calls' = calls + 1
    /\ UNCHANGED <<run, pc>>

\* CutTransformer.transform from its first cut on: the rows of X it returns
CutRows(e, X) ==
    LET phi     == X.phi
        abs_phi == [i \in DOMAIN phi |-> Abs(phi[i])]
        rows0   == [i \in DOMAIN phi |-> i]
        index   == IdxMax(abs_phi, rows0)
        rows1   == LocFrom(rows0, index)
        index2  == IF phi[index] > 0 THEN IdxMin(phi, rows1)
                   ELSE IdxMax(phi, rows1)
        rows2   == LocFrom(rows1, index2)
        large   == {r \in Range(rows2) : abs_phi[r] >= e.phi_max}
        rows3   == IF large # {} THEN LocFrom(rows2, Max(large)) ELSE rows2
        small   == {r \in Range(rows3) : abs_phi[r] >= e.phi_min}
    IN  IF small # {} THEN LocTo(rows3, Max(small)) ELSE rows3

\* CutTransformer.transform
CutTransformer_transform(X) ==
    /\ CanCall
    /\ last' = IF ~check_is_fitted(est, "n_features_")
               THEN Outcome("CutTransformer.transform", X, "not called",
                            "NotFittedError", None)
               ELSE Outcome("CutTransformer.transform", X, "not called",
                            "None",
                            [kind |-> "table", obj |-> NewTable,
                             rows |-> CutRows(est, X)])
    /\ calls' = calls + 1
    /\ UNCHANGED <<est, run, pc>>

NextCut ==
    \/ \E X \in CutInputs : CutTransformer_fit(X)
    \/ \E X \in CutInputs : CutTransformer_transform(X)

SpecCut == InitCut /\ [][NextCut]_vars

\* C18: the table a fitted CutTransformer returns holds consecutive rows of
\* its input, in the input's order, and every sample of it has |phi|
\* strictly below phi_max.
C18_CutWindow ==
    (/\ Called("CutTransformer.transform")
     /\ est.fit_returned
     /\ last.err = "None")
    => LET rows == last.ret.rows
           phi  == last.arg.phi
       IN  /\ \A k \in DOMAIN rows : rows[k] \in DOMAIN phi
           /\ \A k \in 1..(Len(rows) - 1) : rows[k + 1] = rows[k] + 1
           /\ \A k \in DOMAIN rows : Abs(phi[rows[k]]) < est.phi_max

====
